---------------------------- MODULE Spec2Model ----------------------------
(***************************************************************************)
(* The iterator protocol of vm/src/protocol/iter.rs: PyIter (the Handle),  *)
(* PyIter::try_from_object (negotiation), PyIterReturn and its conversions *)
(* and PyIterIter (the host adapter).                                      *)
(*                                                                         *)
(* Encodings.  Option<T> is a sequence of length 0 (None) or 1 (Some).     *)
(* PyResult is a record tagged "Ok" or "Err".  An exception is a record    *)
(* [cls, args]; isinstance is decided by the class's ancestors.            *)
(***************************************************************************)
EXTENDS Naturals, Sequences, FiniteSets

VARIABLES
    slots,        \* type -> its slot table [iter, iternext, getitem]
    items,        \* the positional store behind the target's __getitem__
    negResult,    \* what try_from_object(target) returned, once called
    handle,       \* Option<object>: the value wrapped by the PyIter in use
    seqPos,       \* position counter of the PySequenceIterator
    seqDone,      \* the PySequenceIterator has reported exhaustion
    nextCalls,    \* number of invocations of an iternext slot function
    getitemCalls, \* number of __getitem__ calls on the target
    advCount,     \* number of PyIter::next calls on the handle
    lastSlot,     \* Option<slot fn>: the slot function the last PyIter::next invoked
    lastRaw,      \* Option<PyResult>: what the wrapped computation gave that slot
    slotOut,      \* Option<PyResult<PyIterReturn>>: what that slot function returned
    lastAdvance,  \* Option<PyResult<PyIterReturn>>: result of the last PyIter::next
    genStep,      \* how far the wrapper slot's outcomes have followed GenExample
    view,         \* Option<PyResult<PyIterIter>>: what PyIter::iter returned
    viewCalls,    \* number of PyIterIter::next calls
    lastItem,     \* Option<Option<PyResult>>: result of the PyIterIter::next call,
                  \* when that is what called PyIter::next last
    viewSlotCalls,\* iternext slot invocations made by PyIterIter::next calls
    sawAbsent,    \* some PyIterIter::next call has returned None
    callsAtAbsent,\* viewSlotCalls when None was first returned
    getiterOut,   \* Option<PyResult>: what the iter slot function returned to
                  \* try_from_object, None if none was called
    getitemLookups,\* number of __getitem__ method lookups by try_from_object
    hintCalls,    \* number of vm.length_hint calls by PyIter::iter
    estimate,     \* Option<PyResult<Option<usize>>>: what vm.length_hint returned
    convOp, convIn, convOut   \* a conversion applied to an input, and its output

vars == <<slots, items, negResult, handle, seqPos, seqDone, nextCalls,
          getitemCalls, advCount, lastSlot, lastRaw, slotOut, lastAdvance, genStep,
          view, viewCalls, lastItem, viewSlotCalls, sawAbsent, callsAtAbsent,
          getiterOut, getitemLookups, hintCalls, estimate,
          convOp, convIn, convOut>>

iterVars == <<slots, items, negResult, handle, seqPos, seqDone, nextCalls,
              getitemCalls, advCount, lastSlot, lastRaw, slotOut, lastAdvance, genStep,
              view, viewCalls, lastItem, viewSlotCalls, sawAbsent, callsAtAbsent,
              getiterOut, getitemLookups, hintCalls, estimate>>

convVars == <<convOp, convIn, convOut>>

-----------------------------------------------------------------------------
(* Bounds *)

MaxLen == 2      \* longest positional store
MaxCalls == 3    \* most PyIter::next / PyIterIter::next calls in a run
MaxHint == 1     \* largest length hint

-----------------------------------------------------------------------------
(* Values, options, results *)

Vals == {"X", "Y", "42"}

None == <<>>
Some(v) == <<v>>
Option(S) == {None} \cup {Some(v) : v \in S}

SeqsUpTo(S, n) == UNION {[1..k -> S] : k \in 0..n}

Ok(v) == [tag |-> "Ok", obj |-> v]
Err(e) == [tag |-> "Err", err |-> e]
\* Ok of a PyResult<PyIterReturn>
OkRet(r) == [tag |-> "Ok", ret |-> r]

\* enum PyIterReturn
Return(v) == [tag |-> "Return", obj |-> v]
StopIteration(p) == [tag |-> "StopIteration", value |-> p]

PyIterReturns == {Return(v) : v \in Vals} \cup {StopIteration(p) : p \in Option(Vals)}

-----------------------------------------------------------------------------
(* Exceptions *)

\* Each exception class with its ancestors (itself first).  StopSub and
\* IndexStop are user subclasses.
ExcMro(c) ==
    CASE c = "StopIteration"      -> {"StopIteration"}
      [] c = "StopAsyncIteration" -> {"StopAsyncIteration"}
      [] c = "IndexError"         -> {"IndexError"}
      [] c = "StopSub"            -> {"StopSub", "StopIteration"}
      [] c = "IndexStop"          -> {"IndexStop", "IndexError", "StopIteration"}
      [] c = "TypeError"          -> {"TypeError"}
      [] OTHER                    -> {c}

RaisedClasses == {"StopIteration", "StopAsyncIteration", "IndexError",
                  "StopSub", "IndexStop", "ValueError"}

new_exception(cls, args) == [cls |-> cls, args |-> args]
new_type_error(msg) == new_exception("TypeError", <<msg>>)
new_stop_iteration(v) == new_exception("StopIteration", v)

isinstance(err, cls) == cls \in ExcMro(err.cls)
get_arg(err, idx) == IF idx + 1 <= Len(err.args) THEN Some(err.args[idx + 1]) ELSE None

\* The argument lists exceptions are raised with.
ArgLists == {<<>>, <<"42">>, <<"X">>, <<"42", "X">>, <<"X", "42">>}

Errors == {new_exception(c, a) : c \in RaisedClasses, a \in ArgLists}
PyResults == {Ok(v) : v \in Vals} \cup {Err(e) : e \in Errors}

-----------------------------------------------------------------------------
(* PyIterReturn conversions *)

from_pyresult_swallow(result) ==
    IF result.tag = "Ok" THEN OkRet(Return(result.obj))
    ELSE IF isinstance(result.err, "StopIteration")
         THEN OkRet(StopIteration(None))
         ELSE Err(result.err)

\* PyIterReturn::from_pyresult
from_pyresult(result) ==
    IF result.tag = "Ok" THEN OkRet(Return(result.obj))
    ELSE IF isinstance(result.err, "StopIteration")
         THEN OkRet(StopIteration(get_arg(result.err, 0)))
         ELSE Err(result.err)

from_getitem_result_propagates(result) ==
    IF result.tag = "Ok" THEN OkRet(Return(result.obj))
    ELSE IF isinstance(result.err, "StopIteration")
         THEN OkRet(StopIteration(get_arg(result.err, 0)))
         ELSE Err(result.err)

from_getitem_result_keeps_args(result) ==
    IF result.tag = "Ok" THEN OkRet(Return(result.obj))
    ELSE IF isinstance(result.err, "IndexError") \/ isinstance(result.err, "StopIteration")
         THEN OkRet(StopIteration(get_arg(result.err, 0)))
         ELSE Err(result.err)

\* PyIterReturn::from_getitem_result
from_getitem_result(result) ==
    IF result.tag = "Ok" THEN OkRet(Return(result.obj))
    ELSE IF isinstance(result.err, "IndexError")
         THEN OkRet(StopIteration(None))
         ELSE IF isinstance(result.err, "StopIteration")
              THEN OkRet(StopIteration(get_arg(result.err, 0)))
              ELSE Err(result.err)

into_async_pyresult_sync(r) ==
    IF r.tag = "Return" THEN Ok(r.obj)
    ELSE Err(new_exception("StopIteration", r.value))

\* PyIterReturn::into_async_pyresult
into_async_pyresult(r) ==
    IF r.tag = "Return" THEN Ok(r.obj)
    ELSE Err(new_exception("StopAsyncIteration",
                           IF r.value # None THEN <<r.value[1]>> ELSE <<>>))

into_pyresult_drops_payload(r) ==
    IF r.tag = "Return" THEN Ok(r.obj)
    ELSE Err(new_stop_iteration(None))

\* IntoPyResult for PyIterReturn
into_pyresult(r) ==
    IF r.tag = "Return" THEN Ok(r.obj)
    ELSE Err(new_stop_iteration(r.value))

\* IntoPyResult for PyResult<PyIterReturn>
result_into_pyresult(result) ==
    IF result.tag = "Err" THEN result ELSE into_pyresult(result.ret)

-----------------------------------------------------------------------------
(* Types, slot tables and objects *)

\* The linearized ancestors of each runtime type, the type itself first.
Mro(t) ==
    CASE t = "Target"   -> <<"Target", "Base", "object">>
      [] t = "Base"     -> <<"Base", "object">>
      [] t = "Aux"      -> <<"Aux", "object">>
      [] t = "iterator" -> <<"iterator", "object">>
      [] OTHER          -> <<"object">>

Types == {"Target", "Base", "Aux", "iterator", "object"}

\* "target" is the value handed to try_from_object, "aux" another value an
\* iter slot may return, "seqiter" the PySequenceIterator built over target.
class(obj) ==
    CASE obj = "target"  -> "Target"
      [] obj = "aux"     -> "Aux"
      [] obj = "seqiter" -> "iterator"

Objects == {"target", "aux", "seqiter"}

\* iter slot functions: "self" returns its argument, "aux" returns the aux
\* object, "raise" fails.  iternext slot functions: "native" returns any
\* PyResult<PyIterReturn>, "wrapper" runs an underlying computation and
\* passes its PyResult through from_pyresult, "seqiter" is
\* PySequenceIterator's.
IterFns == {"self", "aux", "raise"}
NextFns == {"native", "wrapper"}

EmptyTable == [iter |-> None, iternext |-> None, getitem |-> None]
SeqIterTable == [iter |-> Some("self"), iternext |-> Some("seqiter"), getitem |-> None]

\* The tables a type may be defined with: any for Target; Base, its parent,
\* defines nothing, or an iterator's slots, or __getitem__.
UserTables == [iter : Option(IterFns), iternext : Option(NextFns),
               getitem : Option({"store"})]
BaseTables == {EmptyTable,
               [iter |-> Some("self"), iternext |-> Some("wrapper"), getitem |-> None],
               [iter |-> None, iternext |-> None, getitem |-> Some("store")]}
AuxTables == [iter : {None}, iternext : Option({"native"}), getitem : {None}]

\* PyType::mro_find_map(|x| x.slots.<cap>.load()): the first ancestor's entry
\* that is Some.
mro_find_map(cls, cap) ==
    LET hits == {i \in 1..Len(Mro(cls)) : slots[Mro(cls)[i]][cap] # None}
    IN  IF hits = {} THEN None
        ELSE slots[Mro(cls)[CHOOSE i \in hits : \A j \in hits : i <= j]][cap]

check_own_type_only(obj) == slots[class(obj)]["iternext"] # None

\* PyIter::check
check(obj) == mro_find_map(class(obj), "iternext") # None

-----------------------------------------------------------------------------
(* Negotiation: PyIter::try_from_object / PyObjectRef::get_iter *)

NotIterableMsg(name) == "'" \o name \o "' object is not iterable"
NonIteratorMsg(name) == "iter() returned non-iterator of type '" \o name \o "'"
NotAnIteratorMsg(name) == "'" \o name \o "' object is not an iterator"

\* Calling an iter slot function on obj; e is what a failing one raises.
call_getiter(fn, obj, e) ==
    CASE fn = "self"  -> Ok(obj)
      [] fn = "aux"   -> Ok("aux")
      [] fn = "raise" -> Err(e)

\* vm.get_method_or_type_error(obj, "__getitem__", msg)
get_method_or_type_error(obj, msg) ==
    IF mro_find_map(class(obj), "getitem") # None
    THEN Ok("__getitem__")
    ELSE Err(new_type_error(msg))

try_from_object_names_target(iter_target, e) ==
    LET getiter == mro_find_map(class(iter_target), "iter")
    IN  IF getiter # None
        THEN LET iter == call_getiter(getiter[1], iter_target, e)
             IN  IF iter.tag = "Err" THEN iter
                 ELSE IF check(iter.obj) THEN Ok(iter.obj)
                 ELSE Err(new_type_error(NonIteratorMsg(class(iter_target))))
        ELSE LET m == get_method_or_type_error(iter_target,
                          NotIterableMsg(class(iter_target)))
             IN  IF m.tag = "Err" THEN m ELSE Ok("seqiter")

try_from_object_no_getitem_check(iter_target, e) ==
    LET getiter == mro_find_map(class(iter_target), "iter")
    IN  IF getiter # None
        THEN LET iter == call_getiter(getiter[1], iter_target, e)
             IN  IF iter.tag = "Err" THEN iter
                 ELSE IF check(iter.obj) THEN Ok(iter.obj)
                 ELSE Err(new_type_error(NonIteratorMsg(class(iter.obj))))
        ELSE Ok("seqiter")

try_from_object_iterator_first(iter_target, e) ==
    IF check(iter_target) THEN Ok(iter_target)
    ELSE LET getiter == mro_find_map(class(iter_target), "iter")
         IN  IF getiter # None
             THEN LET iter == call_getiter(getiter[1], iter_target, e)
                  IN  IF iter.tag = "Err" THEN iter
                      ELSE IF check(iter.obj) THEN Ok(iter.obj)
                      ELSE Err(new_type_error(NonIteratorMsg(class(iter.obj))))
             ELSE LET m == get_method_or_type_error(iter_target,
                               NotIterableMsg(class(iter_target)))
                  IN  IF m.tag = "Err" THEN m ELSE Ok("seqiter")

try_from_object_backtracks(iter_target, e) ==
    LET getiter == mro_find_map(class(iter_target), "iter")
        m == get_method_or_type_error(iter_target,
                                      NotIterableMsg(class(iter_target)))
        fallback == IF m.tag = "Err" THEN m ELSE Ok("seqiter")
    IN  IF getiter # None
        THEN LET iter == call_getiter(getiter[1], iter_target, e)
             IN  IF iter.tag = "Err" THEN fallback
                 ELSE IF check(iter.obj) THEN Ok(iter.obj)
                 ELSE fallback
        ELSE fallback

try_from_object_unverified(iter_target, e) ==
    LET getiter == mro_find_map(class(iter_target), "iter")
    IN  IF getiter # None
        THEN call_getiter(getiter[1], iter_target, e)
        ELSE LET m == get_method_or_type_error(iter_target,
                          NotIterableMsg(class(iter_target)))
             IN  IF m.tag = "Err" THEN m ELSE Ok("seqiter")

\* PyIter::try_from_object: Ok(the object the PyIter wraps) or Err.
try_from_object(iter_target, e) ==
    LET getiter == mro_find_map(class(iter_target), "iter")
    IN  IF getiter # None
        THEN LET iter == call_getiter(getiter[1], iter_target, e)
             IN  IF iter.tag = "Err" THEN iter
                 ELSE IF check(iter.obj) THEN Ok(iter.obj)
                 ELSE Err(new_type_error(NonIteratorMsg(class(iter.obj))))
        ELSE LET m == get_method_or_type_error(iter_target,
                          NotIterableMsg(class(iter_target)))
             IN  IF m.tag = "Err" THEN m ELSE Ok("seqiter")

\* What try_from_object's call of the resolved iter slot function returned,
\* None when no iter slot resolved and none was called.
getiter_result(iter_target, e) ==
    LET getiter == mro_find_map(class(iter_target), "iter")
    IN  IF getiter # None THEN Some(call_getiter(getiter[1], iter_target, e))
        ELSE None

\* The __getitem__ method lookups one try_from_object call makes: the one in
\* its else branch.
getitem_lookups(iter_target) ==
    IF mro_find_map(class(iter_target), "iter") # None THEN 0 ELSE 1

\* PyObjectRef::get_iter
get_iter(obj, e) == try_from_object(obj, e)

-----------------------------------------------------------------------------
(* Advancing: PyIter::next and the slot functions it dispatches to *)

\* What a "native" iternext slot function may return.
NativeOutcomes == {OkRet(r) : r \in PyIterReturns}
                    \cup {Err(e) : e \in {x \in Errors : x.args = <<>>}}

NoEnv == [tag |-> "none"]

\* The target's __getitem__: a positional store, out of range past its end.
target_getitem(i) ==
    IF i < Len(items) THEN Ok(items[i + 1])
    ELSE Err(new_exception("IndexError", <<"index out of range">>))

\* What the slot function fn consumes from outside the protocol when it is
\* called: the outcome a native slot decides on, the PyResult of the
\* computation a wrapper slot runs, the __getitem__ result the sequence
\* iterator probes (none once it is exhausted).
EnvOf(fn) ==
    CASE fn = None            -> {NoEnv}
      [] fn = Some("native")  -> NativeOutcomes
      [] fn = Some("wrapper") -> PyResults
      [] fn = Some("seqiter") -> IF seqDone THEN {NoEnv} ELSE {target_getitem(seqPos)}

\* PySequenceIterator's iternext: probe the current position unless
\* exhausted already.
seqiter_next(env) ==
    IF seqDone THEN OkRet(StopIteration(None)) ELSE from_getitem_result(env)

call_iternext(fn, env) ==
    CASE fn = "native"  -> env
      [] fn = "wrapper" -> from_pyresult(env)
      [] fn = "seqiter" -> seqiter_next(env)

PyIter_next_cached(obj, env) ==
    LET iternext == IF lastSlot # None THEN lastSlot
                    ELSE mro_find_map(class(obj), "iternext")
    IN  IF iternext = None
        THEN Err(new_type_error(NotAnIteratorMsg(class(obj))))
        ELSE IF env \in EnvOf(iternext) THEN call_iternext(iternext[1], env)
        ELSE OkRet(StopIteration(None))

PyIter_next_unchecked(obj, env) ==
    LET iternext == mro_find_map(class(obj), "iternext")
    IN  IF iternext = None
        THEN OkRet(StopIteration(None))
        ELSE call_iternext(iternext[1], env)

\* PyIter::next
PyIter_next(obj, env) ==
    LET iternext == mro_find_map(class(obj), "iternext")
    IN  IF iternext = None
        THEN Err(new_type_error(NotAnIteratorMsg(class(obj))))
        ELSE call_iternext(iternext[1], env)

\* The underlying outcomes of the example generator: X, Y, then the
\* exhaustion signal carrying 42.
GenExample == <<Ok("X"), Ok("Y"), Err(new_stop_iteration(Some("42")))>>
GenOff == Len(GenExample) + 1

\* The state a PyIter::next call on obj leaves behind, out being its result.
AdvanceEffects(obj, env, out) ==
    LET fn == mro_find_map(class(obj), "iternext")
    IN  /\ advCount' = advCount + 1
        /\ lastAdvance' = Some(out)
        /\ lastSlot' = fn
        /\ nextCalls' = IF fn = None THEN nextCalls ELSE nextCalls + 1
        /\ lastRaw' = IF fn = Some("wrapper") THEN Some(env) ELSE None
        /\ slotOut' = IF fn = None THEN None ELSE Some(call_iternext(fn[1], env))
        /\ genStep' = IF fn # Some("wrapper") THEN genStep
                      ELSE IF genStep < Len(GenExample) /\ env = GenExample[genStep + 1]
                           THEN genStep + 1 ELSE GenOff
        /\ IF fn = Some("seqiter") /\ ~seqDone
           THEN /\ getitemCalls' = getitemCalls + 1
                /\ seqPos' = IF out.tag = "Ok" /\ out.ret.tag = "Return"
                             THEN seqPos + 1 ELSE seqPos
                /\ seqDone' = (out.tag = "Ok" /\ out.ret.tag = "StopIteration")
           ELSE UNCHANGED <<getitemCalls, seqPos, seqDone>>

-----------------------------------------------------------------------------
(* Actions *)

\* get_iter(target): negotiation, once.
GetIter ==
    /\ negResult = None /\ handle = None
    /\ \E e \in {x \in Errors : x.args = <<>>} :
         LET r == get_iter("target", e)
         IN  /\ negResult' = Some(r)
             /\ handle' = IF r.tag = "Ok" THEN Some(r.obj) ELSE None
             /\ getiterOut' = getiter_result("target", e)
             /\ getitemLookups' = getitemLookups + getitem_lookups("target")
    /\ UNCHANGED <<slots, items, seqPos, seqDone, nextCalls, getitemCalls,
                   advCount, lastSlot, lastRaw, slotOut, lastAdvance, genStep,
                   view, viewCalls, lastItem, viewSlotCalls, sawAbsent, callsAtAbsent,
                   hintCalls, estimate>>
    /\ UNCHANGED convVars

\* PyIter::new(obj): the unchecked wrap.
NewUnchecked ==
    /\ negResult = None /\ handle = None
    /\ \E obj \in {"target", "aux"} : handle' = Some(obj)
    /\ UNCHANGED <<slots, items, negResult, seqPos, seqDone, nextCalls,
                   getitemCalls, advCount, lastSlot, lastRaw, slotOut, lastAdvance,
                   genStep, view, viewCalls, lastItem, viewSlotCalls, sawAbsent,
                   callsAtAbsent, getiterOut, getitemLookups, hintCalls, estimate>>
    /\ UNCHANGED convVars

\* PyIter::next on the handle.
HandleNext ==
    /\ handle # None
    /\ advCount < MaxCalls
    /\ \E env \in EnvOf(mro_find_map(class(handle[1]), "iternext")) :
         AdvanceEffects(handle[1], env, PyIter_next(handle[1], env))
    /\ lastItem' = None
    /\ UNCHANGED <<slots, items, negResult, handle, view, viewCalls,
                   viewSlotCalls, sawAbsent, callsAtAbsent,
                   getiterOut, getitemLookups, hintCalls, estimate>>
    /\ UNCHANGED convVars

\* The program outside the protocol redefines or deletes __next__ on Target
\* while a handle exists: Target's iternext entry is replaced or removed.
SetNextSlot ==
    /\ handle # None
    /\ \E f \in Option(NextFns) :
         /\ f # slots["Target"]["iternext"]
         /\ slots' = [slots EXCEPT !["Target"]["iternext"] = f]
    /\ UNCHANGED <<items, negResult, handle, seqPos, seqDone, nextCalls,
                   getitemCalls, advCount, lastSlot, lastRaw, slotOut, lastAdvance,
                   genStep, view, viewCalls, lastItem, viewSlotCalls, sawAbsent,
                   callsAtAbsent, getiterOut, getitemLookups, hintCalls, estimate>>
    /\ UNCHANGED convVars

-----------------------------------------------------------------------------
(* The host adapter: PyIter::iter and PyIterIter *)

\* The element types T a PyIterIter<T> is built for, and T::try_from_object.
ElemTypes == {"PyObjectRef", "PyIntRef"}

T_try_from_object(T, obj) ==
    IF T = "PyObjectRef" \/ obj = "42" THEN Ok(obj)
    ELSE Err(new_type_error("Expected type 'int' but '" \o obj \o "' found"))

\* vm.length_hint(obj): Ok(None), Ok(Some(k)) or a failure.
LengthHints == {Ok(h) : h \in Option(0..MaxHint)}
                 \cup {Err(new_exception("ValueError", <<>>))}

\* PyIterIter::new
PyIterIter_new(obj, length_hint, T) ==
    [tag |-> "Ok", obj |-> obj, length_hint |-> length_hint, T |-> T]

PyIter_iter_other_value(obj, hint, T) ==
    IF hint.tag = "Err" THEN hint ELSE PyIterIter_new("target", hint.obj, T)

PyIter_iter_ignores_failure(obj, hint, T) ==
    IF hint.tag = "Err" THEN PyIterIter_new(obj, None, T)
    ELSE PyIterIter_new(obj, hint.obj, T)

\* PyIter::iter
PyIter_iter(obj, hint, T) ==
    IF hint.tag = "Err" THEN hint ELSE PyIterIter_new(obj, hint.obj, T)

PyIterIter_item_drops_coercion_failure(r, T) ==
    IF r.tag = "Err" THEN Some(Err(r.err))
    ELSE IF r.ret.tag = "StopIteration" THEN None
    ELSE IF T_try_from_object(T, r.ret.obj).tag = "Err" THEN None
    ELSE Some(T_try_from_object(T, r.ret.obj))

PyIterIter_item_swallow(r, T) ==
    IF r.tag = "Err" THEN None
    ELSE IF r.ret.tag = "StopIteration" THEN None
    ELSE Some(T_try_from_object(T, r.ret.obj))

\* PyIterIter::next, from the result r of self.obj.next(vm): map, transpose,
\* and_then T::try_from_object.
PyIterIter_item(r, T) ==
    IF r.tag = "Err" THEN Some(Err(r.err))
    ELSE IF r.ret.tag = "StopIteration" THEN None
    ELSE Some(T_try_from_object(T, r.ret.obj))

size_hint_zero_lower(v) == <<0, v.length_hint>>

\* PyIterIter::size_hint
size_hint(v) ==
    <<IF v.length_hint # None THEN v.length_hint[1] ELSE 0, v.length_hint>>

\* PyIter::iter on the handle.
MakeView ==
    /\ handle # None /\ view = None
    /\ \E hint \in LengthHints, T \in ElemTypes :
         /\ view' = Some(PyIter_iter(handle[1], hint, T))
         /\ estimate' = Some(hint)
    /\ hintCalls' = hintCalls + 1
    /\ UNCHANGED <<slots, items, negResult, handle, seqPos, seqDone, nextCalls,
                   getitemCalls, advCount, lastSlot, lastRaw, slotOut, lastAdvance,
                   genStep, viewCalls, lastItem, viewSlotCalls, sawAbsent,
                   callsAtAbsent, getiterOut, getitemLookups>>
    /\ UNCHANGED convVars

\* One PyIterIter::next call that goes to self.obj.next(vm).
ViewAdvance(v) ==
    \E env \in EnvOf(mro_find_map(class(v.obj), "iternext")) :
      LET r == PyIter_next(v.obj, env)
          item == PyIterIter_item(r, v.T)
          called == IF mro_find_map(class(v.obj), "iternext") = None
                    THEN viewSlotCalls ELSE viewSlotCalls + 1
      IN  /\ AdvanceEffects(v.obj, env, r)
          /\ lastItem' = Some(item)
          /\ viewCalls' = viewCalls + 1
          /\ viewSlotCalls' = called
          /\ sawAbsent' = (sawAbsent \/ item = None)
          /\ callsAtAbsent' = IF ~sawAbsent /\ item = None THEN called
                              ELSE callsAtAbsent

IterIterNext_fused ==
    /\ view # None /\ view[1].tag = "Ok"
    /\ advCount < MaxCalls /\ viewCalls < MaxCalls
    /\ IF sawAbsent
       THEN /\ lastItem' = Some(None)
            /\ viewCalls' = viewCalls + 1
            /\ UNCHANGED <<seqPos, seqDone, nextCalls, getitemCalls, advCount,
                           lastSlot, lastRaw, slotOut, lastAdvance, genStep,
                           viewSlotCalls, sawAbsent, callsAtAbsent>>
       ELSE ViewAdvance(view[1])
    /\ UNCHANGED <<slots, items, negResult, handle, view,
                   getiterOut, getitemLookups, hintCalls, estimate>>
    /\ UNCHANGED convVars

\* PyIterIter::next
IterIterNext ==
    /\ view # None /\ view[1].tag = "Ok"
    /\ advCount < MaxCalls /\ viewCalls < MaxCalls
    /\ ViewAdvance(view[1])
    /\ UNCHANGED <<slots, items, negResult, handle, view,
                   getiterOut, getitemLookups, hintCalls, estimate>>
    /\ UNCHANGED convVars

-----------------------------------------------------------------------------
(* Conversions applied to inputs of every shape *)

ConvFromPyresult ==
    /\ \E r \in PyResults :
         /\ convOp' = "from_pyresult"
         /\ convIn' = r
         /\ convOut' = from_pyresult(r)
    /\ UNCHANGED iterVars

ConvFromGetitem ==
    /\ \E r \in PyResults :
         /\ convOp' = "from_getitem_result"
         /\ convIn' = r
         /\ convOut' = from_getitem_result(r)
    /\ UNCHANGED iterVars

ConvIntoAsync ==
    /\ \E r \in PyIterReturns :
         /\ convOp' = "into_async_pyresult"
         /\ convIn' = r
         /\ convOut' = into_async_pyresult(r)
    /\ UNCHANGED iterVars

ConvIntoPyresult ==
    /\ \E r \in PyIterReturns :
         /\ convOp' = "into_pyresult"
         /\ convIn' = r
         /\ convOut' = into_pyresult(r)
    /\ UNCHANGED iterVars

ConvResultIntoPyresult ==
    /\ \E r \in {OkRet(x) : x \in PyIterReturns} \cup {Err(e) : e \in Errors} :
         /\ convOp' = "result_into_pyresult"
         /\ convIn' = r
         /\ convOut' = result_into_pyresult(r)
    /\ UNCHANGED iterVars

\* The synchronous projection followed by from_pyresult.
ConvRoundTrip ==
    /\ \E r \in PyIterReturns :
         /\ convOp' = "round_trip"
         /\ convIn' = r
         /\ convOut' = from_pyresult(into_pyresult(r))
    /\ UNCHANGED iterVars

\* PyIterIter::size_hint of an adapter built with the hint h.
ConvSizeHint ==
    /\ \E h \in Option(0..MaxHint) :
         LET sh == size_hint(PyIterIter_new("target", h, "PyObjectRef"))
         IN  /\ convOp' = "size_hint"
             /\ convIn' = [length_hint |-> h]
             /\ convOut' = [lower |-> sh[1], upper |-> sh[2]]
    /\ UNCHANGED iterVars

-----------------------------------------------------------------------------
(* Specifications *)

NoConv ==
    /\ convOp = "none"
    /\ convIn = NoEnv
    /\ convOut = NoEnv

Fresh ==
    /\ negResult = None /\ handle = None
    /\ seqPos = 0 /\ seqDone = FALSE
    /\ nextCalls = 0 /\ getitemCalls = 0 /\ advCount = 0
    /\ lastSlot = None /\ lastRaw = None /\ slotOut = None /\ lastAdvance = None
    /\ genStep = 0
    /\ view = None /\ viewCalls = 0 /\ lastItem = None
    /\ viewSlotCalls = 0 /\ sawAbsent = FALSE /\ callsAtAbsent = 0
    /\ getiterOut = None /\ getitemLookups = 0
    /\ hintCalls = 0 /\ estimate = None

\* The types as defined.  The store is given its content where it can be
\* read: __getitem__ resolves for Target and no iter slot does.
Init ==
    /\ \E target \in UserTables, base \in BaseTables, aux \in AuxTables :
         slots = [t \in Types |->
                    CASE t = "Target"   -> target
                      [] t = "Base"     -> base
                      [] t = "Aux"      -> aux
                      [] t = "iterator" -> SeqIterTable
                      [] OTHER          -> EmptyTable]
    /\ items \in IF /\ mro_find_map("Target", "iter") = None
                    /\ mro_find_map("Target", "getitem") # None
                 THEN SeqsUpTo(Vals, MaxLen) ELSE {<<>>}
    /\ Fresh
    /\ NoConv

Next ==
    \/ GetIter
    \/ NewUnchecked
    \/ HandleNext

\* Negotiation and advancing through the Handle.
Spec == Init /\ [][Next]_vars

\* The types the host adapter is driven over: Target alone defines slots,
\* with a native iternext where it has one.
ViewTables == [iter : Option({"self"}), iternext : Option({"native"}),
               getitem : Option({"store"})]

InitView ==
    /\ \E target \in ViewTables :
         slots = [t \in Types |->
                    CASE t = "Target"   -> target
                      [] t = "iterator" -> SeqIterTable
                      [] OTHER          -> EmptyTable]
    /\ items \in IF /\ mro_find_map("Target", "iter") = None
                    /\ mro_find_map("Target", "getitem") # None
                 THEN SeqsUpTo(Vals, MaxLen) ELSE {<<>>}
    /\ Fresh
    /\ NoConv

NextView ==
    \/ GetIter
    \/ NewUnchecked
    \/ HandleNext
    \/ MakeView
    \/ IterIterNext

\* The host adapter over a Handle.
SpecView == InitView /\ [][NextView]_vars

\* Target is an iterator type (its iter slot returns the value itself) whose
\* iternext entry the program may replace or remove.
MutTables == [iter : {Some("self")}, iternext : Option(NextFns), getitem : {None}]

InitMut ==
    /\ \E target \in MutTables :
         slots = [t \in Types |->
                    CASE t = "Target"   -> target
                      [] t = "iterator" -> SeqIterTable
                      [] OTHER          -> EmptyTable]
    /\ items = <<>>
    /\ Fresh
    /\ NoConv

NextMut ==
    \/ GetIter
    \/ NewUnchecked
    \/ HandleNext
    \/ SetNextSlot

\* Advancing a handle while its type's iternext entry changes.
SpecMut == InitMut /\ [][NextMut]_vars

InitConv ==
    /\ slots = [t \in Types |-> IF t = "iterator" THEN SeqIterTable ELSE EmptyTable]
    /\ items = <<>>
    /\ Fresh
    /\ NoConv

NextConv ==
    \/ ConvFromPyresult
    \/ ConvFromGetitem
    \/ ConvIntoAsync
    \/ ConvIntoPyresult
    \/ ConvResultIntoPyresult
    \/ ConvRoundTrip
    \/ ConvSizeHint

SpecConv == InitConv /\ [][NextConv]_vars

-----------------------------------------------------------------------------
(* Properties *)

IsExhausted(adv) ==
    adv # None /\ adv[1].tag = "Ok" /\ adv[1].ret.tag = "StopIteration"

\* The type of cls's MRO whose slot table supplies cap (cap resolves).
mro_owner(cls, cap) ==
    Mro(cls)[CHOOSE i \in 1..Len(Mro(cls)) :
                /\ slots[Mro(cls)[i]][cap] # None
                /\ \A j \in 1..(i - 1) : slots[Mro(cls)[j]][cap] = None]

GetIterSlot == mro_find_map(class("target"), "iter")
GetItemSlot == mro_find_map(class("target"), "getitem")

\* C1 as stated: once a PyIterIter::next call has returned None, no later
\* PyIterIter::next call invokes the iternext slot function (the count of
\* slot invocations made through the adapter stays what it was then).
C1_NoAdvanceAfterAbsent == sawAbsent => viewSlotCalls = callsAtAbsent

\* C1 amended: every PyIterIter::next call, also one made after an earlier
\* call returned None, calls PyIter::next exactly once, and that invokes the
\* iternext slot function once whenever the slot resolves.
C1_EveryCallAdvances ==
    [][viewCalls' = viewCalls + 1 =>
         /\ advCount' = advCount + 1
         /\ viewSlotCalls' = IF check(view[1].obj) THEN viewSlotCalls + 1
                             ELSE viewSlotCalls]_vars

\* A slot invocation made through the adapter after it had returned None.
C1_Witness == sawAbsent /\ viewSlotCalls > callsAtAbsent

\* C10 as stated: once a PyIterIter::next call has returned None, every
\* later PyIterIter::next call returns None.
C10_AbsentForever == (sawAbsent /\ lastItem # None) => lastItem = Some(None)

\* C10 amended: a PyIterIter::next call returns None exactly when the
\* PyIter::next call it makes returns StopIteration; after a None, a later
\* call returns an element again when the iternext slot produces one.
C10_AbsentIffExhausted ==
    lastItem # None => (lastItem = Some(None) <=> IsExhausted(lastAdvance))

\* An element returned by the adapter after it had returned None.
C10_Witness ==
    /\ sawAbsent
    /\ lastItem # None /\ lastItem # Some(None)
    /\ lastItem[1][1].tag = "Ok"

C3_SequenceFallbackInOrder ==
    (GetIterSlot = None /\ GetItemSlot # None /\ negResult # None) =>
        /\ negResult = Some(Ok("seqiter"))
        /\ handle = Some("seqiter")
        /\ \A k \in 1..(Len(items) + 1) :
             advCount = k =>
                lastAdvance = IF k <= Len(items)
                              THEN Some(OkRet(Return(items[k])))
                              ELSE Some(OkRet(StopIteration(None)))

\* A store of at least two items drained to its exhaustion.
C3_Witness ==
    /\ handle = Some("seqiter")
    /\ Len(items) >= 2
    /\ advCount = Len(items) + 1
    /\ lastAdvance = Some(OkRet(StopIteration(None)))

\* C4: when neither an iter slot nor __getitem__ resolves for Target,
\* try_from_object(target) fails with the type error "'Target' object is not
\* iterable" and there is no handle.
C4_NotIterable ==
    (GetIterSlot = None /\ GetItemSlot = None /\ negResult # None) =>
        /\ negResult = Some(Err(new_type_error("'Target' object is not iterable")))
        /\ handle = None

C4_Witness ==
    /\ GetIterSlot = None /\ GetItemSlot = None
    /\ negResult # None /\ negResult[1].tag = "Err"

\* What the resolved iter slot returned and check rejected.
BadCandidate(obj) ==
    /\ GetIterSlot # None /\ GetIterSlot # Some("raise")
    /\ call_getiter(GetIterSlot[1], "target", NoEnv) = Ok(obj)
    /\ mro_find_map(class(obj), "iternext") = None

\* C5 as stated: when the resolved iter slot returns a candidate that fails
\* check, try_from_object fails with the "returned non-iterator" type error
\* naming the type that overrides the iter slot.
C5_NamesOverridingType ==
    \A obj \in Objects :
        (BadCandidate(obj) /\ negResult # None) =>
            negResult = Some(Err(new_type_error(
                "iter() returned non-iterator of type '"
                    \o mro_owner(class("target"), "iter") \o "'")))

\* C5 amended: ... the type error names the runtime type of the candidate
\* the iter slot returned.
C5_NamesCandidateType ==
    \A obj \in Objects :
        (BadCandidate(obj) /\ negResult # None) =>
            negResult = Some(Err(new_type_error(
                "iter() returned non-iterator of type '" \o class(obj) \o "'")))

\* Target's iter slot returned the aux object, which is no iterator.
C5_Witness ==
    /\ BadCandidate("aux")
    /\ negResult = Some(Err(new_type_error("iter() returned non-iterator of type 'Aux'")))

\* C6: each PyIter::next call resolves iternext through the MRO of the
\* wrapped value's type; if it is absent the call fails with the type error
\* "'<type>' object is not an iterator" and no slot function is invoked,
\* otherwise the resolved slot function is invoked once and its result is
\* returned unchanged.
C6_AdvanceDispatch ==
    [][advCount' = advCount + 1 =>
         LET obj == IF handle # None THEN handle[1] ELSE view[1].obj
             fn == mro_find_map(class(obj), "iternext")
         IN  IF fn = None
             THEN /\ lastAdvance' = Some(Err(new_type_error(
                        "'" \o class(obj) \o "' object is not an iterator")))
                  /\ nextCalls' = nextCalls
                  /\ slotOut' = None
             ELSE /\ nextCalls' = nextCalls + 1
                  /\ lastSlot' = fn
                  /\ slotOut' # None
                  /\ lastAdvance' = slotOut']_vars

\* PyIter::next on an unchecked handle over the aux object, no iterator.
C6_Witness ==
    /\ handle = Some("aux")
    /\ advCount > 0 /\ nextCalls = 0
    /\ lastAdvance = Some(Err(new_type_error("'Aux' object is not an iterator")))

\* The outcomes the example generator's three advances are to give.
GenExpected == <<OkRet(Return("X")), OkRet(Return("Y")),
                 OkRet(StopIteration(Some("42")))>>

\* C7: from_pyresult maps Ok(v) to Return(v), an error that is an instance
\* of StopIteration to StopIteration(its first argument, None if it has
\* none), and any other error to itself; so a slot whose computation gives
\* X, Y and then raises StopIteration(42) has its three PyIter::next calls
\* return Return(X), Return(Y), StopIteration(Some(42)).
C7_FromPyresult ==
    /\ (lastSlot = Some("wrapper") /\ lastRaw # None) =>
         LET raw == lastRaw[1]
         IN  lastAdvance = Some(
               IF raw.tag = "Ok" THEN OkRet(Return(raw.obj))
               ELSE IF "StopIteration" \in ExcMro(raw.err.cls)
                    THEN OkRet(StopIteration(IF raw.err.args = <<>> THEN None
                                             ELSE Some(Head(raw.err.args))))
                    ELSE Err(raw.err))
    /\ \A k \in 1..Len(GenExample) :
         (lastSlot = Some("wrapper") /\ genStep = k) =>
            lastAdvance = Some(GenExpected[k])

\* The example generator's third advance.
C7_Witness ==
    /\ lastSlot = Some("wrapper")
    /\ genStep = Len(GenExample)
    /\ lastAdvance = Some(OkRet(StopIteration(Some("42"))))

\* C8: from_getitem_result maps, trying the cases in this order, Ok(v) to
\* Return(v), an error that is an instance of IndexError to
\* StopIteration(None) whatever its arguments, an error that is an instance
\* of StopIteration to StopIteration(its first argument, if any), and any
\* other error to itself.
C8_FromGetitemResult ==
    convOp = "from_getitem_result" =>
        convOut =
            IF convIn.tag = "Ok" THEN OkRet(Return(convIn.obj))
            ELSE IF "IndexError" \in ExcMro(convIn.err.cls)
                 THEN OkRet(StopIteration(None))
                 ELSE IF "StopIteration" \in ExcMro(convIn.err.cls)
                      THEN OkRet(StopIteration(IF convIn.err.args = <<>> THEN None
                                               ELSE Some(Head(convIn.err.args))))
                      ELSE Err(convIn.err)

\* An IndexError carrying arguments, mapped to StopIteration(None).
C8_Witness ==
    /\ convOp = "from_getitem_result"
    /\ convIn = Err(new_exception("IndexError", <<"42", "X">>))
    /\ convOut = OkRet(StopIteration(None))

\* C9: into_async_pyresult maps Return(v) to Ok(v), StopIteration(None) to
\* the error StopAsyncIteration with no arguments and StopIteration(Some(x))
\* to StopAsyncIteration with the arguments [x]; it never gives a
\* StopIteration error.
C9_IntoAsync ==
    convOp = "into_async_pyresult" =>
        /\ convIn.tag = "Return" => convOut = Ok(convIn.obj)
        /\ convIn = StopIteration(None) =>
             convOut = Err([cls |-> "StopAsyncIteration", args |-> <<>>])
        /\ \A x \in Vals :
             convIn = StopIteration(Some(x)) =>
                convOut = Err([cls |-> "StopAsyncIteration", args |-> <<x>>])
        /\ convOut.tag = "Err" => convOut.err.cls # "StopIteration"

\* StopIteration(Some(42)) projected to StopAsyncIteration(42).
C9_Witness ==
    /\ convOp = "into_async_pyresult"
    /\ convIn = StopIteration(Some("42"))
    /\ convOut = Err([cls |-> "StopAsyncIteration", args |-> <<"42">>])

\* C11 as stated: for every hint (None or Some(k)) the size hint reported
\* has lower bound 0 and upper bound the hint, so it is never exact
\* (lower = upper > 0).
C11_LowerBoundZero ==
    convOp = "size_hint" =>
        /\ convOut.lower = 0
        /\ convOut.upper = convIn.length_hint
        /\ ~(convOut.upper # None /\ convOut.lower = convOut.upper[1]
               /\ convOut.lower > 0)

\* C11 amended: the size hint reported has upper bound the hint and lower
\* bound hint.unwrap_or(0): 0 when the hint is None, k when it is Some(k);
\* so for Some(k) with k > 0 it is the exact bound (k, Some(k)).
C11_LowerBoundIsHint ==
    convOp = "size_hint" =>
        /\ convOut.upper = convIn.length_hint
        /\ convIn.length_hint = None => convOut.lower = 0
        /\ \A k \in 0..(MaxHint + 1) :
             convIn.length_hint = Some(k) => convOut.lower = k

\* The hint Some(1) reported as the exact bound (1, Some(1)).
C11_Witness ==
    /\ convOp = "size_hint"
    /\ convIn.length_hint = Some(1)
    /\ convOut = [lower |-> 1, upper |-> Some(1)]

\* The entry for cap of the first type, from Target up its ancestors Base and
\* object, whose slot table has one.
NearestEntry(cap) ==
    IF slots["Target"][cap] # None THEN slots["Target"][cap]
    ELSE IF slots["Base"][cap] # None THEN slots["Base"][cap]
    ELSE slots["object"][cap]

\* C12: the iter and iternext slots used by check, PyIter::next and
\* try_from_object on target are the entry of the first type in Target's
\* MRO (Target, Base, object) that has one, and the slot is absent exactly
\* when no type of the MRO has an entry.
C12_NearestAncestorWins ==
    /\ check("target") <=> (\E i \in 1..Len(Mro("Target")) :
                               slots[Mro("Target")[i]]["iternext"] # None)
    /\ check("target") <=> NearestEntry("iternext") # None
    /\ (handle = Some("target") /\ advCount > 0) =>
         /\ lastSlot = NearestEntry("iternext")
         /\ lastSlot = None <=>
              lastAdvance = Some(Err(new_type_error("'Target' object is not an iterator")))
    /\ negResult # None =>
         /\ getiterOut = None <=> (\A i \in 1..Len(Mro("Target")) :
                                      slots[Mro("Target")[i]]["iter"] = None)
         /\ NearestEntry("iter") = Some("self") => getiterOut = Some(Ok("target"))
         /\ NearestEntry("iter") = Some("aux") => getiterOut = Some(Ok("aux"))
         /\ NearestEntry("iter") = Some("raise") => getiterOut[1].tag = "Err"

\* Target's own iternext entry used although Base has another, and Base's
\* iter entry used where Target has none.
C12_Witness ==
    /\ slots["Target"]["iternext"] = Some("native")
    /\ slots["Base"]["iternext"] = Some("wrapper")
    /\ slots["Target"]["iter"] = None
    /\ negResult = Some(Ok("target"))
    /\ advCount > 0 /\ lastSlot = Some("native")

C14_NoBacktracking ==
    negResult # None =>
        /\ GetIterSlot # None =>
             /\ getitemLookups = 0
             /\ getitemCalls = 0
             /\ negResult # Some(Ok("seqiter")) /\ handle # Some("seqiter")
             /\ getiterOut # None
             /\ getiterOut[1].tag = "Err" => negResult = getiterOut
             /\ (getiterOut[1].tag = "Ok" /\ ~check(getiterOut[1].obj)) =>
                  /\ negResult[1].tag = "Err"
                  /\ negResult[1].err.cls = "TypeError"
                  /\ negResult[1].err # new_type_error(NotIterableMsg("Target"))
        /\ GetIterSlot = None =>
             /\ getitemLookups = 1
             /\ getiterOut = None
             /\ \A i \in 1..Len(Mro("Target")) : slots[Mro("Target")[i]]["iter"] = None

\* A failing iter slot on a type that also has __getitem__: the failure is
\* the result and __getitem__ was not looked up.
C14_Witness ==
    /\ GetIterSlot = Some("raise") /\ GetItemSlot # None
    /\ negResult = Some(Err(new_exception("ValueError", <<>>)))
    /\ getiterOut = negResult
    /\ getitemLookups = 0

\* C15: when Target's iternext entry differs from the slot the previous
\* PyIter::next call on the handle used, the next call uses the entry
\* resolved at that call: it invokes the replacement (and not the earlier
\* slot function), or fails with the "not an iterator" type error without
\* invoking any slot function if the entry was removed.
C15_NoCachedSlot ==
    [][(advCount' = advCount + 1 /\ handle = Some("target")
          /\ lastSlot # slots["Target"]["iternext"]) =>
         LET cur == slots["Target"]["iternext"]
         IN  /\ lastSlot' = cur
             /\ cur = None =>
                  /\ lastAdvance' = Some(Err(new_type_error(
                                        "'Target' object is not an iterator")))
                  /\ nextCalls' = nextCalls
                  /\ slotOut' = None
             /\ cur = Some("wrapper") =>
                  /\ lastRaw' # None
                  /\ lastAdvance' = Some(from_pyresult(lastRaw'[1]))
                  /\ nextCalls' = nextCalls + 1
             /\ cur = Some("native") =>
                  /\ lastRaw' = None
                  /\ lastAdvance' \in {Some(o) : o \in NativeOutcomes}
                  /\ lastAdvance' = slotOut'
                  /\ nextCalls' = nextCalls + 1]_vars

\* A handle that try_from_object returned, advanced after its type's
\* iternext entry was removed.
C15_Witness ==
    /\ negResult = Some(Ok("target")) /\ handle = Some("target")
    /\ advCount >= 2 /\ nextCalls = advCount - 1
    /\ slots["Target"]["iternext"] = None
    /\ lastSlot = None
    /\ lastAdvance = Some(Err(new_type_error("'Target' object is not an iterator")))

\* C16: whenever try_from_object returns Ok, through the iter slot or
\* through the __getitem__ fallback, check is true of the value the handle
\* wraps, and a PyIter::next call on it does not fail with the "not an
\* iterator" type error.
C16_ReturnedHandleIsIterator ==
    (negResult # None /\ negResult[1].tag = "Ok") =>
        /\ handle = Some(negResult[1].obj)
        /\ check(handle[1])
        /\ \E i \in 1..Len(Mro(class(handle[1]))) :
             slots[Mro(class(handle[1]))[i]]["iternext"] # None
        /\ advCount > 0 =>
             /\ lastSlot # None
             /\ lastAdvance # Some(Err(new_type_error(
                    "'" \o class(handle[1]) \o "' object is not an iterator")))

\* A handle on the aux object, returned through Target's iter slot, and
\* advanced.
C16_Witness ==
    /\ negResult = Some(Ok("aux")) /\ handle = Some("aux")
    /\ advCount = 1 /\ lastSlot = Some("native")

\* C17: a PyIterIter built from a handle wraps the value the handle wraps;
\* over a sequence iterator every PyIter::next call, made through the handle
\* or through the PyIterIter, returns the item at the one shared position and
\* moves that position on by one, so each item is returned once and in order.
C17_SharedPosition ==
    [][(advCount' = advCount + 1 /\ handle = Some("seqiter")) =>
         /\ (view # None /\ view[1].tag = "Ok") => view[1].obj = "seqiter"
         /\ IF seqPos < Len(items)
            THEN /\ lastAdvance' = Some(OkRet(Return(items[seqPos + 1])))
                 /\ seqPos' = seqPos + 1
                 /\ (viewCalls' = viewCalls + 1 /\ view[1].T = "PyObjectRef") =>
                      lastItem' = Some(Some(Ok(items[seqPos + 1])))
            ELSE /\ lastAdvance' = Some(OkRet(StopIteration(None)))
                 /\ seqPos' = seqPos
                 /\ viewCalls' = viewCalls + 1 => lastItem' = Some(None)]_vars

\* The first item taken through the handle, the second through the
\* PyIterIter.
C17_Witness ==
    /\ handle = Some("seqiter") /\ Len(items) = 2
    /\ advCount = 2 /\ viewCalls = 1 /\ seqPos = 2
    /\ view # None /\ view[1].tag = "Ok" /\ view[1].T = "PyObjectRef"
    /\ lastItem = Some(Some(Ok(items[2])))

\* C18: a PyIterIter::next call whose PyIter::next call fails returns
\* Some(Err) of that same error; it makes one PyIter::next call, which
\* invokes the resolved iternext slot function once (none when the failure
\* is PyIter::next's own "not an iterator" error, no slot being resolved);
\* and when T::try_from_object fails on a returned value the call returns
\* Some(Err) of that failure.
C18_FailureIsPresentElement ==
    [][viewCalls' = viewCalls + 1 =>
         LET adv == lastAdvance'[1]
         IN  /\ advCount' = advCount + 1
             /\ adv.tag = "Err" =>
                  /\ lastItem' = Some(Some(Err(adv.err)))
                  /\ IF check(view[1].obj)
                     THEN /\ nextCalls' = nextCalls + 1
                          /\ slotOut' = Some(Err(adv.err))
                     ELSE /\ nextCalls' = nextCalls
                          /\ adv = Err(new_type_error(NotAnIteratorMsg(
                                        class(view[1].obj))))
             /\ (adv.tag = "Ok" /\ adv.ret.tag = "Return"
                   /\ view[1].T = "PyIntRef" /\ adv.ret.obj # "42") =>
                  /\ lastItem' # Some(None)
                  /\ lastItem'[1][1].tag = "Err"
                  /\ lastItem'[1][1].err.cls = "TypeError"]_vars

\* A failure of the native slot function returned as an element.
C18_Witness ==
    /\ viewCalls > 0
    /\ lastSlot = Some("native")
    /\ slotOut = Some(Err(new_exception("ValueError", <<>>)))
    /\ lastItem = Some(Some(Err(new_exception("ValueError", <<>>))))

\* C19: PyIter::iter calls vm.length_hint once and makes no PyIter::next
\* call; if the estimate is an error the result is that error, no PyIterIter
\* exists and none is ever advanced; if it is Ok(h) the PyIterIter's
\* size_hint is (h.unwrap_or(0), h) then and after every PyIterIter::next
\* call, without another vm.length_hint call.
C19_HintOnceAtConstruction ==
    [][/\ (view = None /\ view' # None) =>
            /\ hintCalls = 0 /\ hintCalls' = 1
            /\ advCount' = advCount /\ nextCalls' = nextCalls
            /\ viewCalls' = 0
            /\ estimate' # None
            /\ estimate'[1].tag = "Err" => view' = estimate'
            /\ estimate'[1].tag = "Ok" => view'[1].tag = "Ok"
       /\ view # None =>
            /\ hintCalls' = hintCalls /\ estimate' = estimate
            /\ view[1].tag = "Err" => viewCalls' = 0 /\ viewSlotCalls' = 0
            /\ view[1].tag = "Ok" =>
                 /\ view'[1].tag = "Ok"
                 /\ size_hint(view'[1]) =
                      <<IF estimate[1].obj = None THEN 0 ELSE estimate[1].obj[1],
                        estimate[1].obj>>]_vars

\* The estimate Some(1) still reported after two PyIterIter::next calls.
C19_Witness ==
    /\ hintCalls = 1 /\ estimate = Some(Ok(Some(1)))
    /\ view # None /\ view[1].tag = "Ok"
    /\ viewCalls >= 2
    /\ size_hint(view[1]) = <<1, Some(1)>>

\* C20: for every PyIterReturn r, from_pyresult(into_pyresult(r)) is Ok(r);
\* into_pyresult takes Return(v) to Ok(v) and StopIteration(p) to the
\* StopIteration error whose arguments are p's value, if any.
C20_RoundTrip ==
    /\ convOp = "round_trip" => convOut = [tag |-> "Ok", ret |-> convIn]
    /\ convOp = "into_pyresult" =>
         /\ convIn.tag = "Return" => convOut = Ok(convIn.obj)
         /\ convIn.tag = "StopIteration" =>
              convOut = Err([cls |-> "StopIteration", args |-> convIn.value])

\* StopIteration(Some(42)) taken through the StopIteration error and back.
C20_Witness ==
    /\ convOp = "round_trip"
    /\ convIn = StopIteration(Some("42"))
    /\ convOut = OkRet(StopIteration(Some("42")))

=============================================================================
